---- MODULE Spec2Model ----
(***************************************************************************)
(* Combined flight search of the travel API.                               *)
(*                                                                         *)
(*   SvcSpec    app/flight_services/services/combined_service.py           *)
(*              combined_search(payload, page, size): validation, the      *)
(*              supplier calls, formatting and pagination, the exception   *)
(*              handlers.                                                  *)
(*   RouteSpec  app/flight_services/routes/combined/combined_search.py     *)
(*              POST /search: the fan-out with asyncio.gather, the FlyHub  *)
(*              token cache (cached_token) and authenticate_flyhub, run    *)
(*              as tasks of one asyncio event loop.                        *)
(*   ClientSpec app/flight_services/clients/bdfare_client.py and           *)
(*              app/flight_services/routes/bdfare/search.py                *)
(*              one invocation of a BDFare client operation or of the      *)
(*              route search_flights: its outbound requests, the           *)
(*              supplier's answers, the exception handlers.                *)
(*   PageSpec   combined_service.py lines 108-120 applied to one merged    *)
(*              sequence for two consecutive pages.                        *)
(***************************************************************************)
EXTENDS Integers, Sequences, FiniteSets, TLC

VARIABLES svc, rq, cached_token, now, issued, cl, pg

vars == <<svc, rq, cached_token, now, issued, cl, pg>>

\* ------------------------------------------------------------------ bounds
MaxOffers == 3        \* offers one supplier returns for one search
MaxPage == 3          \* largest page number requested
MaxSize == 4          \* largest page size requested
NumCallers == 2       \* concurrent requests on the event loop (RouteSpec)
MaxTokens == 2        \* tokens FlyHub issues in one run
MaxTime == 3600       \* last value of the event loop's clock
TickStep == 1800      \* seconds between two observed values of the clock

\* ------------------------------------------------------- program constants
TokenTTL == 3600      \* combined_search.py:67, "+ 3600"

Min(a, b) == IF a < b THEN a ELSE b
Max(a, b) == IF a < b THEN b ELSE a

\* ------------------------------------------------------------ Python values
\* The empty string stands for every falsy value of a payload key (absent,
\* None, "", {}): `if not source` treats them alike.
Truthy(x) == x # ""

\* list[start:end] of Python, for any integers start and end.
PyIndex(i, n) == IF i < 0 THEN Max(i + n, 0) ELSE Min(i, n)
PySlice(s, start, end) ==
    SubSeq(s, PyIndex(start, Len(s)) + 1, PyIndex(end, Len(s)))

\* ---------------------------------------------------------------- exceptions
NoExc == [type |-> "none", status |-> 0, msg |-> "", arg |-> ""]
ValueError(m, a) == [type |-> "ValueError", status |-> 0, msg |-> m, arg |-> a]
TypeError(m, a) == [type |-> "TypeError", status |-> 0, msg |-> m, arg |-> a]
TransportError(m) == [type |-> "TransportError", status |-> 0, msg |-> m, arg |-> ""]
HTTPException(st, m, a) == [type |-> "HTTPException", status |-> st, msg |-> m, arg |-> a]

\* ------------------------------------------------------------------- inputs
Suppliers == {"bdfare", "flyhub"}
Sources == {"bdfare", "flyhub", "all", "xyz", ""}
Payloads == [source : Sources, pointOfSale : {"BD", ""}, request : {"req", ""}]
Pages == 0 .. MaxPage
Sizes == -1 .. MaxSize
UpstreamStatuses == {401, 503}

\* What a supplier does with the search of one request: it answers 200 with k
\* offers, answers a non-2xx status, or the connection fails.
Answers ==
    [st : {"ok"}, k : 0 .. MaxOffers, status : {200}]
    \cup [st : {"upstream"}, k : {0}, status : UpstreamStatuses]
    \cup [st : {"transport"}, k : {0}, status : {0}]
Envs == [bdfare : Answers, flyhub : Answers]

Offer(sup, i) == [sourceSupplier |-> sup, offerId |-> i]
OffersOf(sup, k) == [i \in 1 .. k |-> Offer(sup, i)]

\* A request of the route POST /search that is not being served.
Callers == 1 .. NumCallers

RqIdle ==
    [h |-> "idle", status |-> 0, bd |-> "none", fh |-> "none",
     sent |-> [done |-> FALSE, tok |-> 0, fresh |-> FALSE],
     auth |-> 0, auth_exc |-> NoExc]

\* A client function of clients/bdfare_client.py that is not being called.
NoOutcome == [kind |-> "none", type |-> "", status |-> 0]
NoAnswer == [k |-> "none", status |-> 0]

ClIdle ==
    [op |-> "", pc |-> "idle", sends |-> 0, conf |-> "ok",
     first |-> NoAnswer, second |-> NoAnswer, out |-> NoOutcome]

\* No pair of consecutive pages is being computed.
PgIdle ==
    [pc |-> "idle", merged |-> <<>>, page |-> 1, size |-> 1,
     first |-> <<>>, second |-> <<>>]

\* ================================================================ the service
\* ValidateKeys with pointOfSale tested before source.
ValidateKeys_PointOfSaleFirst(p) ==
    IF ~Truthy(p.pointOfSale)
        THEN ValueError("The key is missing in the payload.", "pointOfSale")
    ELSE IF ~Truthy(p.source) THEN ValueError("The key is missing in the payload.", "source")
    ELSE IF ~Truthy(p.request)
        THEN ValueError("The key is missing in the payload.", "request")
    ELSE NoExc

\* Lines 36-42: the required keys, in the order source, pointOfSale, request.
ValidateKeys(p) ==
    IF ~Truthy(p.source) THEN ValueError("The key is missing in the payload.", "source")
    ELSE IF ~Truthy(p.pointOfSale)
        THEN ValueError("The key is missing in the payload.", "pointOfSale")
    ELSE IF ~Truthy(p.request)
        THEN ValueError("The key is missing in the payload.", "request")
    ELSE NoExc

\* Parameters of the two client functions the service calls, and the keyword
\* arguments it calls them with (lines 56, 66, 76, 77).
fetch_bdfare_flights_params == {"payload"}
fetch_flyhub_flights_params == {"payload", "page", "size"}
ServiceKwargs == {"page", "size"}

\* Python binds the arguments when an `async def` function is called, before
\* any coroutine exists: an unexpected keyword raises TypeError at the call.
CallBinds(params, kwargs) == kwargs \subseteq params

BindError(fn, params, kwargs) ==
    IF CallBinds(params, kwargs) THEN NoExc
    ELSE TypeError(fn, IF "page" \in kwargs \ params THEN "page" ELSE "size")

\* The first exception raised by lines 28-101 before the first await, NoExc
\* when the function reaches an await. convert_bdfare_to_flyhub (lines 61, 71)
\* is the pure request adapter and raises nothing.
ExcBeforeAwait(p) ==
    IF ValidateKeys(p).type # "none" THEN ValidateKeys(p)
    ELSE IF p.source = "bdfare"
        THEN BindError("fetch_bdfare_flights", fetch_bdfare_flights_params, ServiceKwargs)
    ELSE IF p.source = "flyhub"
        THEN BindError("fetch_flyhub_flights", fetch_flyhub_flights_params, ServiceKwargs)
    ELSE IF p.source = "all"
        THEN IF ~CallBinds(fetch_bdfare_flights_params, ServiceKwargs)
             THEN BindError("fetch_bdfare_flights", fetch_bdfare_flights_params, ServiceKwargs)
             ELSE BindError("fetch_flyhub_flights", fetch_flyhub_flights_params, ServiceKwargs)
    ELSE ValueError("Invalid source specified: ", p.source)

\* The coroutines that exist when the function stops at its first await or at
\* the exception: line 56 / 66 create one, lines 76-77 create bdfare's first.
TasksAt(p) ==
    [s \in Suppliers |->
        IF ValidateKeys(p).type # "none" \/ p.source \notin {s, "all"} THEN "none"
        ELSE IF s = "bdfare"
            THEN IF CallBinds(fetch_bdfare_flights_params, ServiceKwargs)
                 THEN "pending" ELSE "failed"
        ELSE IF p.source = "all" /\ ~CallBinds(fetch_bdfare_flights_params, ServiceKwargs)
            THEN "not_created"
        ELSE IF CallBinds(fetch_flyhub_flights_params, ServiceKwargs)
            THEN "pending" ELSE "failed"]

\* Lines 122-138: the exception handlers of combined_search.
ErrorResponse(st, prefix, e) ==
    [kind |-> "error", status |-> st, prefix |-> prefix, msg |-> e.msg, arg |-> e.arg,
     page |-> 0, size |-> 0, total_flights |-> 0, flights |-> <<>>]

\* ExceptionToHTTP without the `except ValueError` clause: a validation error
\* falls through to the last handler.
ExceptionToHTTP_NoValueError(e) ==
    IF e.type = "KeyError" THEN ErrorResponse(422, "Missing key in payload: ", e)
    ELSE IF e.type = "HTTPException" THEN ErrorResponse(e.status, "", e)
    ELSE ErrorResponse(500, "An unexpected error occurred: ", e)

ExceptionToHTTP(e) ==
    IF e.type = "KeyError" THEN ErrorResponse(422, "Missing key in payload: ", e)
    ELSE IF e.type = "ValueError" THEN ErrorResponse(422, "Validation Error: ", e)
    ELSE IF e.type = "HTTPException" THEN ErrorResponse(e.status, "", e)
    ELSE ErrorResponse(500, "An unexpected error occurred: ", e)

\* raw_results: supplier -> -1 (None) or the number of offers of its response;
\* a supplier that is no key of the dict is outside the domain.
format_flight_data_with_ids(raw) ==
    LET part(s) == IF s \in DOMAIN raw /\ raw[s] >= 0 THEN OffersOf(s, raw[s]) ELSE <<>>
    IN part("bdfare") \o part("flyhub")

\* Paginate with start = page * size (pages counted from 0).
Paginate_PageFromZero(flights, page, size) ==
    LET start == page * size
    IN [kind |-> "result", status |-> 200, prefix |-> "", msg |-> "", arg |-> "",
        page |-> page, size |-> size, total_flights |-> Len(flights),
        flights |-> PySlice(flights, start, start + size)]

\* Paginate with total_flights counted after the slice.
Paginate_TotalOfPage(flights, page, size) ==
    LET start == (page - 1) * size
    IN [kind |-> "result", status |-> 200, prefix |-> "", msg |-> "", arg |-> "",
        page |-> page, size |-> size,
        total_flights |-> Len(PySlice(flights, start, start + size)),
        flights |-> PySlice(flights, start, start + size)]

\* Paginate with the element at index end included in the page.
Paginate_EndInclusive(flights, page, size) ==
    LET start == (page - 1) * size
    IN [kind |-> "result", status |-> 200, prefix |-> "", msg |-> "", arg |-> "",
        page |-> page, size |-> size, total_flights |-> Len(flights),
        flights |-> PySlice(flights, start, start + size + 1)]

\* Lines 108-120.
Paginate(flights, page, size) ==
    LET total_flights == Len(flights)
        start == (page - 1) * size
        end == start + size
    IN [kind |-> "result", status |-> 200, prefix |-> "", msg |-> "", arg |-> "",
        page |-> page, size |-> size, total_flights |-> total_flights,
        flights |-> PySlice(flights, start, end)]

\* The FlyHub client of the service (clients/flyhub_client.py): it returns the
\* supplier's response or fails with the supplier's error.
flyhub_client_error(ans) ==
    IF ans.st = "upstream" THEN HTTPException(ans.status, "FlyHub API Error", "")
    ELSE TransportError("FlyHub request failed")

\* SingleSourceResponse with the client's failure turned into None, as lines
\* 85-93 do in the "all" branch.
SingleSourceResponse_FailureAsNone(sup, ans, page, size) ==
    Paginate(format_flight_data_with_ids(
                 [s \in {sup} |-> IF ans.st = "ok" THEN ans.k ELSE -1]), page, size)

\* Lines 58-66 and 103-138 for one awaited client: its response is formatted
\* and paginated, its exception goes to the handlers.
SingleSourceResponse(sup, ans, page, size) ==
    IF ans.st = "ok"
    THEN Paginate(format_flight_data_with_ids([s \in {sup} |-> ans.k]), page, size)
    ELSE ExceptionToHTTP(flyhub_client_error(ans))

NoResponse ==
    [kind |-> "none", status |-> 0, prefix |-> "", msg |-> "", arg |-> "",
     page |-> 0, size |-> 0, total_flights |-> 0, flights |-> <<>>]

SvcIdle ==
    [pc |-> "idle", payload |-> [source |-> "", pointOfSale |-> "", request |-> ""],
     page |-> 1, size |-> 1,
     env |-> [bdfare |-> [st |-> "ok", k |-> 0, status |-> 200],
              flyhub |-> [st |-> "ok", k |-> 0, status |-> 200]],
     tasks |-> [s \in Suppliers |-> "none"], merged |-> <<>>, resp |-> NoResponse]

\* combined_search up to its first await (lines 26-80), or to the response when
\* an exception is raised before it.
combined_search_call ==
    /\ svc.pc = "idle"
    /\ \E p \in Payloads, page \in Pages, size \in Sizes, env \in Envs :
        LET e == ExcBeforeAwait(p) IN
        svc' = [pc |-> IF e.type # "none" THEN "done"
                       ELSE IF p.source = "all" THEN "await_gather"
                       ELSE "await_client",
                payload |-> p, page |-> page, size |-> size, env |-> env,
                tasks |-> TasksAt(p), merged |-> <<>>,
                resp |-> IF e.type # "none" THEN ExceptionToHTTP(e) ELSE NoResponse]
    /\ UNCHANGED <<rq, cached_token, now, issued, cl, pg>>

\* Line 66: the awaited FlyHub client returns or raises; lines 103-120 or the
\* handlers follow.
combined_search_flyhub_returns ==
    /\ svc.pc = "await_client"
    /\ svc.tasks["flyhub"] = "pending"
    /\ LET ans == svc.env.flyhub IN
        svc' = [svc EXCEPT
                  !.pc = "done",
                  !.tasks["flyhub"] = IF ans.st = "ok" THEN "ok" ELSE "failed",
                  !.merged = IF ans.st = "ok"
                             THEN format_flight_data_with_ids([s \in {"flyhub"} |-> ans.k])
                             ELSE <<>>,
                  !.resp = SingleSourceResponse("flyhub", ans, svc.page, svc.size)]
    /\ UNCHANGED <<rq, cached_token, now, issued, cl, pg>>

\* The response is delivered to the HTTP client; the next request may arrive.
combined_search_respond ==
    /\ svc.pc = "done"
    /\ svc' = SvcIdle
    /\ UNCHANGED <<rq, cached_token, now, issued, cl, pg>>

SvcInit ==
    /\ svc = SvcIdle
    /\ rq = [r \in Callers |-> RqIdle]
    /\ cached_token = [token |-> 0, expires_at |-> 0]
    /\ now = 0
    /\ issued = 0
    /\ cl = ClIdle
    /\ pg = PgIdle

SvcNext ==
    \/ combined_search_call
    \/ combined_search_flyhub_returns
    \/ combined_search_respond

SvcSpec == SvcInit /\ [][SvcNext]_vars

\* ================================================= the route POST /search
\* routes/combined/combined_search.py. Each caller r is one HTTP request being
\* served; all of them are tasks of one event loop and share cached_token.
\* A token is a positive number, 0 is None.

\* What the supplier does with one outbound request. A 200 answer of
\* Authenticate carries a TokenId that is a non-empty string.
HttpOutcomes == {"200", "non200", "transport"}

\* CredentialInvalid without the comparison of expires_at.
CredentialInvalid_TokenOnly(c, t) == c.token = 0

\* CredentialInvalid with expires_at < time(): a token is used at its expiry.
CredentialInvalid_ExpiryStrict(c, t) == c.token = 0 \/ c.expires_at < t

\* Line 37: not cached_token["token"] or cached_token["expires_at"] <= time().
CredentialInvalid(c, t) == c.token = 0 \/ c.expires_at <= t

\* StoreToken that writes the token and leaves the expiry of the cache.
StoreToken_TokenOnly(c, tok, t) == [c EXCEPT !.token = tok]

\* Lines 66-67: the token and its expiry are written one after the other with
\* no await between them.
StoreToken(c, tok, t) == [token |-> tok, expires_at |-> t + TokenTTL]

\* authenticate_flyhub_raises with status 500 whatever the supplier answered.
authenticate_flyhub_raises_500(st) ==
    HTTPException(500, "FlyHub Authentication Failed", "")

\* Line 69.
authenticate_flyhub_raises(st) ==
    HTTPException(st, "FlyHub Authentication Failed", "")

\* Lines 40-47: the search request leaves with the token the cache holds now.
SendSearch(c, t) == [done |-> TRUE, tok |-> c.token, fresh |-> t < c.expires_at]

\* Line 112, asyncio.gather(bdfare_task, flyhub_task) without
\* return_exceptions, and lines 120-123: the first exception of a task is
\* raised in the handler at once and becomes a 500, the other task is neither
\* awaited nor cancelled; with both results the handler returns 200.
Gather(q) ==
    IF q.h # "gather" THEN q
    ELSE IF q.bd = "failed" \/ q.fh = "failed" THEN [q EXCEPT !.h = "done", !.status = 500]
    ELSE IF q.bd = "ok" /\ q.fh = "ok" THEN [q EXCEPT !.h = "done", !.status = 200]
    ELSE q

\* Lines 105-112 and the first step of both tasks: fetch_bdfare_flights sends
\* its request (line 25); fetch_flyhub_flights tests the cache (line 37) and
\* sends the Authenticate request (line 62) or the search (line 47).
route_combined_search(r) ==
    /\ rq[r].h = "idle"
    /\ rq' = [rq EXCEPT ![r] =
                 IF CredentialInvalid(cached_token, now)
                 THEN [RqIdle EXCEPT !.h = "gather", !.bd = "wait", !.fh = "auth_wait"]
                 ELSE [RqIdle EXCEPT !.h = "gather", !.bd = "wait", !.fh = "search_wait",
                                     !.sent = SendSearch(cached_token, now)]]
    /\ UNCHANGED <<svc, cached_token, now, issued, cl, pg>>

\* Lines 25-30: BDFare answers, or the connection fails.
route_fetch_bdfare_flights_returns(r) ==
    /\ rq[r].bd = "wait"
    /\ \E o \in HttpOutcomes :
        rq' = [rq EXCEPT ![r] =
                  Gather([rq[r] EXCEPT !.bd = IF o = "200" THEN "ok" ELSE "failed"])]
    /\ UNCHANGED <<svc, cached_token, now, issued, cl, pg>>

\* Lines 62-69, then lines 40-47 of the caller: on 200 the token and the
\* expiry are stored and the search is sent; otherwise the task fails, with
\* the HTTPException of line 69 when the supplier answered, with the error of
\* httpx when the connection failed. auth is the status that was answered.
authenticate_flyhub_returns(r) ==
    /\ rq[r].fh = "auth_wait"
    /\ \E o \in HttpOutcomes, st \in UpstreamStatuses :
        IF o = "200"
        THEN /\ issued < MaxTokens
             /\ issued' = issued + 1
             /\ cached_token' = StoreToken(cached_token, issued + 1, now)
             /\ rq' = [rq EXCEPT ![r].fh = "search_wait",
                                 ![r].auth = 200,
                                 ![r].sent = SendSearch(cached_token', now)]
        ELSE /\ rq' = [rq EXCEPT ![r] =
                         Gather([rq[r] EXCEPT
                                    !.fh = "failed",
                                    !.auth = IF o = "non200" THEN st ELSE 0,
                                    !.auth_exc =
                                        IF o = "non200"
                                            THEN authenticate_flyhub_raises(st)
                                            ELSE TransportError("Authenticate")])]
             /\ UNCHANGED <<cached_token, issued>>
    /\ UNCHANGED <<svc, now, cl, pg>>

\* Lines 47-52: FlyHub answers the search, or the connection fails.
fetch_flyhub_flights_returns(r) ==
    /\ rq[r].fh = "search_wait"
    /\ \E o \in HttpOutcomes :
        rq' = [rq EXCEPT ![r] =
                  Gather([rq[r] EXCEPT !.fh = IF o = "200" THEN "ok" ELSE "failed"])]
    /\ UNCHANGED <<svc, cached_token, now, issued, cl, pg>>

\* The response has left and both tasks have ended: the next request of this
\* caller may arrive.
route_request_over(r) ==
    /\ rq[r].h = "done"
    /\ rq[r].bd \in {"ok", "failed"}
    /\ rq[r].fh \in {"ok", "failed"}
    /\ rq' = [rq EXCEPT ![r] = RqIdle]
    /\ UNCHANGED <<svc, cached_token, now, issued, cl, pg>>

\* asyncio.get_event_loop().time() advances.
Tick ==
    /\ now + TickStep <= MaxTime
    /\ now' = now + TickStep
    /\ UNCHANGED <<svc, rq, cached_token, issued, cl, pg>>

RouteInit ==
    /\ svc = SvcIdle
    /\ rq = [r \in Callers |-> RqIdle]
    /\ cached_token = [token |-> 0, expires_at |-> 0]
    /\ now = 0
    /\ issued = 0
    /\ cl = ClIdle
    /\ pg = PgIdle

RouteNext ==
    \/ \E r \in Callers : route_combined_search(r)
    \/ \E r \in Callers : route_fetch_bdfare_flights_returns(r)
    \/ \E r \in Callers : authenticate_flyhub_returns(r)
    \/ \E r \in Callers : fetch_flyhub_flights_returns(r)
    \/ \E r \in Callers : route_request_over(r)
    \/ Tick

RouteSpec == RouteInit /\ [][RouteNext]_vars

\* ============================================= the BDFare client operations
\* clients/bdfare_client.py.  cl is one invocation of one operation: the
\* outbound requests it has sent (sends), what the supplier does with the
\* first and with the second of them, and how the operation ends (out).

BdfareOps ==
    {"fetch_bdfare_flights", "fetch_bdfare_ticket_cancel",
     "fetch_bdfare_ticket_issue", "fetch_bdfare_airretrieve",
     "fetch_bdfare_airbook", "fetch_bdfare_airprebook",
     "fetch_bdfare_airprice"}

\* What the supplier does with one request: a JSON body with a 2xx status, a
\* 200 whose body is not JSON, an error status, a broken connection, or no
\* answer at all.
SupplierAnswers ==
    {[k |-> "json", status |-> st] : st \in {200, 201}}
        \cup {[k |-> "badjson", status |-> 200]}
        \cup {[k |-> "status", status |-> st] : st \in UpstreamStatuses}
        \cup {[k |-> "transport", status |-> 0], [k |-> "silent", status |-> 0]}

\* The timeout of an outstanding request: httpx.AsyncClient(timeout=60.0) and
\* httpx.AsyncClient() bound the request; requests.post(url, json=, headers=)
\* of line 306 has none.
CallTimeout == [await_httpx |-> TRUE, await_requests |-> FALSE]

\* The awaited request ends: the supplier answered, or the timeout fires.
CallEnds(pc, a) == a.k # "silent" \/ CallTimeout[pc]

Returned == [kind |-> "return", type |-> "", status |-> 0]
Raised(type, st) == [kind |-> "raise", type |-> type, status |-> st]

\* Lines 42-51 and 63-72: raise_for_status and json inside try, every
\* exception becomes HTTPException(500).
ticket_outcome(a) ==
    IF a.k = "json" THEN Returned ELSE Raised("HTTPException", 500)

\* Lines 93-116, 146-175, 193-213: HTTPStatusError keeps the upstream status,
\* any other exception becomes HTTPException(500).
order_outcome(a) ==
    IF a.k = "json" THEN Returned
    ELSE IF a.k = "status" THEN Raised("HTTPException", a.status)
    ELSE Raised("HTTPException", 500)

\* Lines 227-250: ReadTimeout and RequestError become HTTPException(500),
\* HTTPStatusError keeps the upstream status; the error of response.json() is
\* caught by no handler.
airprice_outcome(a) ==
    IF a.k = "json" THEN Returned
    ELSE IF a.k = "status" THEN Raised("HTTPException", a.status)
    ELSE IF a.k = "badjson" THEN Raised("JSONDecodeError", 0)
    ELSE Raised("HTTPException", 500)

httpx_outcome(op, a) ==
    IF op \in {"fetch_bdfare_ticket_cancel", "fetch_bdfare_ticket_issue"}
        THEN ticket_outcome(a)
    ELSE IF op = "fetch_bdfare_airprice" THEN airprice_outcome(a)
    ELSE order_outcome(a)

\* Lines 274-276: fetch_bdfare_flights returns response.json() when the status
\* is 200 and the body decodes.
flights_httpx_ok(a) == a.k = "json" /\ a.status = 200

\* Lines 305-332: requests.post, raise_for_status (4xx and 5xx), json.
fallback_to_requests(b) ==
    IF b.k = "json" THEN Returned
    ELSE IF b.k = "status" THEN Raised("HTTPException", b.status)
    ELSE Raised("HTTPException", 500)

\* An operation is called: it sends its request with httpx.
bdfare_client_call ==
    /\ cl.pc = "idle"
    /\ \E op \in BdfareOps, a \in SupplierAnswers :
          cl' = [ClIdle EXCEPT !.op = op, !.pc = "await_httpx", !.sends = 1,
                               !.first = a]
    /\ UNCHANGED <<svc, rq, cached_token, now, issued, pg>>

\* await client.post(...) ends and the operation returns or raises.
httpx_post_returns ==
    /\ cl.pc = "await_httpx"
    /\ CallEnds(cl.pc, cl.first)
    /\ \/ cl.op # "fetch_bdfare_flights"
       \/ flights_httpx_ok(cl.first)
    /\ cl' = [cl EXCEPT !.pc = "done",
                        !.out = IF cl.op = "fetch_bdfare_flights"
                                    THEN Returned
                                    ELSE httpx_outcome(cl.op, cl.first)]
    /\ UNCHANGED <<svc, rq, cached_token, now, issued, pg>>

\* Lines 283-286: any exception of the httpx attempt of fetch_bdfare_flights,
\* its own HTTPException for a status other than 200 included, is answered by
\* fallback_to_requests, which sends the request again.
fetch_bdfare_flights_falls_back ==
    /\ cl.pc = "await_httpx"
    /\ CallEnds(cl.pc, cl.first)
    /\ cl.op = "fetch_bdfare_flights"
    /\ ~flights_httpx_ok(cl.first)
    /\ \E b \in SupplierAnswers :
          cl' = [cl EXCEPT !.pc = "await_requests", !.sends = 2, !.second = b]
    /\ UNCHANGED <<svc, rq, cached_token, now, issued, pg>>

\* requests.post(...) ends and fallback_to_requests returns or raises.
fallback_to_requests_returns ==
    /\ cl.pc = "await_requests"
    /\ CallEnds(cl.pc, cl.second)
    /\ cl' = [cl EXCEPT !.pc = "done", !.out = fallback_to_requests(cl.second)]
    /\ UNCHANGED <<svc, rq, cached_token, now, issued, pg>>

bdfare_client_over ==
    /\ cl.pc = "done"
    /\ cl' = ClIdle
    /\ UNCHANGED <<svc, rq, cached_token, now, issued, pg>>

\* ------------------------------------ the direct route POST /airshopping
\* routes/bdfare/search.py, search_flights.  conf is what lines 18-19 read
\* from the environment when the module was imported.

SearchConfigs == {"ok", "no_url", "no_key", "no_url_no_key"}

\* is_httpx_RequestError that holds for every first attempt that did not
\* return: an answer other than 200 and a body that is not JSON included.
is_httpx_RequestError_AnyFailure(a) == ~(a.k = "json" /\ a.status = 200)

\* Line 144, except httpx.RequestError: the connection failed, or the
\* supplier did not answer within the timeout of httpx.AsyncClient().
is_httpx_RequestError(a) == a.k \in {"transport", "silent"}

\* Lines 133-142: data of a 200 answer, HTTPException(status) for another
\* status; the error of response.json() on line 134 meets no handler.
search_flights_httpx_outcome(a) ==
    IF a.k = "json" /\ a.status = 200 THEN Returned
    ELSE IF a.k = "badjson" THEN Raised("JSONDecodeError", 0)
    ELSE Raised("HTTPException", a.status)

\* Lines 164-190: curl run without --fail ends with 0 whatever the status;
\* its output is returned when it is JSON (body_is_json says whether the body
\* of an error status is); every failure becomes HTTPException(500).
curl_outcome(b, body_is_json) ==
    IF b.k = "json" \/ (b.k = "status" /\ body_is_json) THEN Returned
    ELSE Raised("HTTPException", 500)

\* Lines 110-129: the two configuration tests, then the httpx request.
search_flights_call ==
    /\ cl.pc = "idle"
    /\ \E conf \in SearchConfigs, a \in SupplierAnswers :
          cl' = IF conf # "ok"
                THEN [ClIdle EXCEPT !.op = "search_flights", !.conf = conf,
                                    !.pc = "done",
                                    !.out = Raised("HTTPException", 500)]
                ELSE [ClIdle EXCEPT !.op = "search_flights",
                                    !.pc = "await_route_httpx", !.sends = 1,
                                    !.first = a]
    /\ UNCHANGED <<svc, rq, cached_token, now, issued, pg>>

\* Lines 131-142: the supplier answered the httpx request.
search_flights_httpx_returns ==
    /\ cl.pc = "await_route_httpx"
    /\ ~is_httpx_RequestError(cl.first)
    /\ cl' = [cl EXCEPT !.pc = "done",
                        !.out = search_flights_httpx_outcome(cl.first)]
    /\ UNCHANGED <<svc, rq, cached_token, now, issued, pg>>

\* Lines 144-164: httpx raised a RequestError and curl sends the request.
search_flights_falls_back_to_curl ==
    /\ cl.pc = "await_route_httpx"
    /\ is_httpx_RequestError(cl.first)
    /\ \E b \in SupplierAnswers :
          cl' = [cl EXCEPT !.pc = "await_curl", !.sends = 2, !.second = b]
    /\ UNCHANGED <<svc, rq, cached_token, now, issued, pg>>

\* Lines 164-190: subprocess.run(curl_command, ...) has no timeout and ends
\* when curl does.
curl_returns ==
    /\ cl.pc = "await_curl"
    /\ cl.second.k # "silent"
    /\ \E body_is_json \in BOOLEAN :
          cl' = [cl EXCEPT !.pc = "done",
                           !.out = curl_outcome(cl.second, body_is_json)]
    /\ UNCHANGED <<svc, rq, cached_token, now, issued, pg>>

ClientInit ==
    /\ svc = SvcIdle
    /\ rq = [r \in Callers |-> RqIdle]
    /\ cached_token = [token |-> 0, expires_at |-> 0]
    /\ now = 0
    /\ issued = 0
    /\ cl = ClIdle
    /\ pg = PgIdle

ClientNext ==
    \/ bdfare_client_call
    \/ httpx_post_returns
    \/ fetch_bdfare_flights_falls_back
    \/ fallback_to_requests_returns
    \/ search_flights_call
    \/ search_flights_httpx_returns
    \/ search_flights_falls_back_to_curl
    \/ curl_returns
    \/ bdfare_client_over

ClientSpec == ClientInit /\ [][ClientNext]_vars

\* ================================================ pagination on its own
\* Lines 108-120 applied to one merged sequence for page and then for
\* page + 1, with the same size.

MergedSeqs ==
    {OffersOf("bdfare", a) \o OffersOf("flyhub", b) :
        a \in 0 .. MaxOffers, b \in 0 .. MaxOffers}

paginate_page ==
    /\ pg.pc = "idle"
    /\ pg' = [pg EXCEPT !.pc = "first",
                        !.first = Paginate(pg.merged, pg.page, pg.size).flights]
    /\ UNCHANGED <<svc, rq, cached_token, now, issued, cl>>

paginate_next_page ==
    /\ pg.pc = "first"
    /\ pg' = [pg EXCEPT !.pc = "second",
                        !.second =
                            Paginate(pg.merged, pg.page + 1, pg.size).flights]
    /\ UNCHANGED <<svc, rq, cached_token, now, issued, cl>>

PageInit ==
    /\ svc = SvcIdle
    /\ rq = [r \in Callers |-> RqIdle]
    /\ cached_token = [token |-> 0, expires_at |-> 0]
    /\ now = 0
    /\ issued = 0
    /\ cl = ClIdle
    /\ \E m \in MergedSeqs, page \in Pages, size \in Sizes :
          pg = [PgIdle EXCEPT !.merged = m, !.page = page, !.size = size]

PageNext ==
    \/ paginate_page
    \/ paginate_next_page

PageSpec == PageInit /\ [][PageNext]_vars

\* ======================================================= claims on the route
\* C1. Single refresh: concurrent callers that find the credential absent or
\* expired cause one authenticate call; two authenticate calls are never in
\* flight at the same time.
C1_SingleRefresh == Cardinality({r \in Callers : rq[r].fh = "auth_wait"}) <= 1

\* C5. Completion barrier: the handler ends (a response is returned) only
\* when both dispatched supplier tasks have ended, with success or failure.
C5_Barrier ==
    \A r \in Callers :
        rq[r].h = "done" => rq[r].bd \in {"ok", "failed"} /\ rq[r].fh \in {"ok", "failed"}

KeysPresent ==
    /\ svc.payload.source # ""
    /\ svc.payload.pointOfSale # ""
    /\ svc.payload.request # ""

Targets(source) == IF source = "all" THEN Suppliers ELSE {source} \cap Suppliers

\* The page the specification asks for: the half-open range
\* [(page-1)*size, (page-1)*size + size) of m, clamped to the bounds of m.
ExpectedPage(m, page, size) ==
    LET lo == Min((page - 1) * size, Len(m))
        hi == Min((page - 1) * size + size, Len(m))
    IN [i \in 1 .. (hi - lo) |-> m[lo + i]]

\* C2. Partial success: with source "all" and a valid page and size, when one
\* supplier answers with k offers and the other fails, the response is a
\* result (status 200) with total_flights = k and every offer from the
\* supplier that answered.
C2_PartialSuccess ==
    \A a \in Suppliers :
        LET b == CHOOSE x \in Suppliers : x # a IN
        (/\ svc.pc = "done"
         /\ KeysPresent
         /\ svc.page >= 1
         /\ svc.size >= 1
         /\ svc.payload.source = "all"
         /\ svc.env[a].st = "ok"
         /\ svc.env[b].st # "ok")
        => /\ svc.resp.kind = "result"
           /\ svc.resp.status = 200
           /\ svc.resp.total_flights = svc.env[a].k
           /\ \A i \in 1 .. Len(svc.resp.flights) :
                  svc.resp.flights[i].sourceSupplier = a

C4_FailureIsolation ==
    \A s \in Suppliers, t \in Suppliers :
        (/\ s # t
         /\ KeysPresent
         /\ svc.page >= 1
         /\ svc.size >= 1
         /\ svc.payload.source = "all"
         /\ svc.tasks[s] = "failed")
        => svc.tasks[t] \in {"pending", "ok", "failed"}

\* C6. Pagination slice: for page >= 1 and size >= 1 the returned flights are
\* at most size many and are the range [(page-1)*size, (page-1)*size + size) of
\* the merged sequence, clamped to its bounds.
C6_PaginationSlice ==
    (/\ svc.pc = "done"
     /\ svc.resp.kind = "result"
     /\ svc.page >= 1
     /\ svc.size >= 1)
    => /\ Len(svc.resp.flights) <= svc.size
       /\ svc.resp.flights = ExpectedPage(svc.merged, svc.page, svc.size)

C6_Witness ==
    /\ svc.pc = "done"
    /\ svc.resp.kind = "result"
    /\ svc.page = 2
    /\ svc.size = 2
    /\ Len(svc.merged) = 3
    /\ svc.resp.flights = <<svc.merged[3]>>

\* C7. total_flights is the length of the merged sequence before pagination,
\* whatever page and size are (the number of offers the suppliers answered
\* with), and a page that starts at or after the end of the sequence is empty
\* with that same total_flights.
C7_TotalBeforePagination ==
    (svc.pc = "done" /\ svc.resp.kind = "result")
    => /\ svc.resp.total_flights = Len(svc.merged)
       /\ svc.resp.total_flights = svc.env[svc.payload.source].k
       /\ (svc.page - 1) * svc.size >= Len(svc.merged) => svc.resp.flights = <<>>

C7_Witness ==
    /\ svc.pc = "done"
    /\ svc.resp.kind = "result"
    /\ svc.page = 3
    /\ svc.size = 2
    /\ svc.resp.total_flights = 3
    /\ svc.resp.flights = <<>>

\* C8. Merge order: with source "all" and both suppliers answering, the result
\* holds the offers of bdfare followed by the offers of flyhub, each in the
\* supplier's order, cut to the page; total_flights counts both.
C8_MergeOrder ==
    (/\ svc.pc = "done"
     /\ KeysPresent
     /\ svc.payload.source = "all"
     /\ svc.env.bdfare.st = "ok"
     /\ svc.env.flyhub.st = "ok"
     /\ svc.page >= 1
     /\ svc.size >= 1)
    => /\ svc.resp.kind = "result"
       /\ svc.resp.total_flights = svc.env.bdfare.k + svc.env.flyhub.k
       /\ svc.resp.flights =
              ExpectedPage(OffersOf("bdfare", svc.env.bdfare.k)
                               \o OffersOf("flyhub", svc.env.flyhub.k),
                           svc.page, svc.size)

NoSupplierWork == \A s \in Suppliers : svc.tasks[s] = "none"

\* C10 as stated. Unknown selector: every request (page and size valid) whose
\* source (a value that is present) is none of bdfare, flyhub, all is answered
\* 422 with the message "Invalid source specified: <source>", and no supplier
\* is called.
C10_UnknownSourceAsStated ==
    (/\ svc.pc = "done"
     /\ svc.page >= 1
     /\ svc.size >= 1
     /\ svc.payload.source \notin {"", "bdfare", "flyhub", "all"})
    => /\ svc.resp.status = 422
       /\ svc.resp.msg = "Invalid source specified: "
       /\ svc.resp.arg = svc.payload.source
       /\ NoSupplierWork

\* C10 as amended. Every request whose source is present and none of bdfare,
\* flyhub, all is answered 422 and no supplier is called; when pointOfSale and
\* request are present too the message is "Invalid source specified: <source>".
C10_UnknownSource ==
    (svc.pc = "done" /\ svc.payload.source \notin {"", "bdfare", "flyhub", "all"})
    => /\ svc.resp.kind = "error"
       /\ svc.resp.status = 422
       /\ NoSupplierWork
       /\ KeysPresent => /\ svc.resp.msg = "Invalid source specified: "
                         /\ svc.resp.arg = svc.payload.source

C10_Witness ==
    /\ svc.pc = "done"
    /\ KeysPresent
    /\ svc.payload.source = "xyz"
    /\ svc.resp.status = 422
    /\ svc.resp.prefix = "Validation Error: "
    /\ svc.resp.msg = "Invalid source specified: "
    /\ svc.resp.arg = "xyz"

\* C11. Missing required keys: a request in which source, pointOfSale or
\* request is missing is answered 422 with the message naming the first
\* missing key in the order source, pointOfSale, request, and no supplier is
\* called.
FirstMissing(p) ==
    IF p.source = "" THEN "source"
    ELSE IF p.pointOfSale = "" THEN "pointOfSale"
    ELSE "request"

C11_MissingKey ==
    (svc.pc # "idle" /\ ~KeysPresent)
    => /\ svc.pc = "done"
       /\ svc.resp.kind = "error"
       /\ svc.resp.status = 422
       /\ svc.resp.msg = "The key is missing in the payload."
       /\ svc.resp.arg = FirstMissing(svc.payload)
       /\ NoSupplierWork

C11_Witness ==
    /\ svc.pc = "done"
    /\ svc.payload = [source |-> "all", pointOfSale |-> "", request |-> ""]
    /\ svc.resp.status = 422
    /\ svc.resp.arg = "pointOfSale"

\* C12. Invalid pagination input: a request with page < 1 or size < 1 (here
\* with all keys present and source flyhub) is answered 422, no supplier is
\* dispatched and no result object is returned.
C12_InvalidPaginationRejected ==
    (/\ svc.pc # "idle"
     /\ KeysPresent
     /\ svc.payload.source = "flyhub"
     /\ (svc.page < 1 \/ svc.size < 1))
    => /\ NoSupplierWork
       /\ svc.pc = "done"
       /\ svc.resp.kind = "error"
       /\ svc.resp.status = 422

\* C16. No detail leak: the 500 answer to an unexpected exception has a
\* generic detail that holds nothing of the exception's message.
C16_GenericDetail ==
    (/\ svc.pc = "done"
     /\ KeysPresent
     /\ svc.page >= 1
     /\ svc.size >= 1
     /\ svc.resp.kind = "error"
     /\ svc.resp.prefix = "An unexpected error occurred: ")
    => /\ svc.resp.status = 500
       /\ svc.resp.msg = ""
       /\ svc.resp.arg = ""

\* C18. Selector determines the fan-out set: a supplier the source does not
\* target is never called; every supplier it targets is called and ends with
\* the outcome of the supplier's answer; the offers of a targeted supplier
\* that answered are in the result.
C18_SelectorFanOut ==
    (/\ svc.pc = "done"
     /\ KeysPresent
     /\ svc.page >= 1
     /\ svc.size >= 1
     /\ svc.payload.source \in {"bdfare", "flyhub", "all"})
    => \A s \in Suppliers :
          /\ s \notin Targets(svc.payload.source) => svc.tasks[s] = "none"
          /\ s \in Targets(svc.payload.source)
                => svc.tasks[s] = IF svc.env[s].st = "ok" THEN "ok" ELSE "failed"
          /\ (s \in Targets(svc.payload.source) /\ svc.env[s].st = "ok")
                => /\ svc.resp.kind = "result"
                   /\ svc.resp.total_flights >= svc.env[s].k

\* C15. Authentication failure is contained: when the refresh of the FlyHub
\* credential fails (the FlyHub task failed before any search was sent) and
\* BDFare answered, the request does not fail.
C15_AuthFailureContained ==
    \A r \in Callers :
        (/\ rq[r].h = "done"
         /\ rq[r].fh = "failed"
         /\ ~rq[r].sent.done
         /\ rq[r].bd = "ok")
        => rq[r].status = 200

\* C20. Token lifetime: a successful refresh at time t stores the expiry
\* t + 3600; a search issued while a token is cached and time < expiry sends
\* its request with that token and no authenticate call; a search issued at a
\* time >= expiry calls authenticate before any search request.
C20_TokenLifetime ==
    [][/\ cached_token' # cached_token
            => /\ cached_token'.token # 0
               /\ cached_token'.expires_at = now + 3600
       /\ \A r \in Callers :
            (rq[r].h = "idle" /\ rq'[r].h = "gather")
            => /\ (cached_token.token # 0 /\ now < cached_token.expires_at)
                    => /\ rq'[r].fh = "search_wait"
                       /\ rq'[r].sent.tok = cached_token.token
                       /\ cached_token' = cached_token
               /\ now >= cached_token.expires_at
                    => /\ rq'[r].fh = "auth_wait"
                       /\ ~rq'[r].sent.done]_vars

\* Two searches in flight with the token of the only refresh so far: one of
\* them was issued after the refresh and before the expiry.
C20_Witness ==
    /\ issued = 1
    /\ now > 0
    /\ now < cached_token.expires_at
    /\ \A r \in Callers : rq[r].fh = "search_wait" /\ rq[r].sent.tok = 1

\* C13. Single attempt: an invocation of fetch_bdfare_flights issues at most
\* one outbound HTTP request to the supplier, whatever its outcome.
C13_SingleAttempt == cl.op = "fetch_bdfare_flights" => cl.sends <= 1

\* C14. Upstream status surfaced: when the supplier answers a request of a
\* BDFare client operation with a non-2xx status, the operation raises an
\* error carrying that status; it does not return a value or another code.
C14_UpstreamStatusSurfaced ==
    (cl.pc = "done" /\ cl.first.k = "status")
    => /\ cl.out.kind = "raise"
       /\ cl.out.type = "HTTPException"
       /\ cl.out.status = cl.first.status

\* C19. Every outbound call is bounded by a timeout: while an operation waits
\* for the supplier, a step that ends the wait is possible, even when the
\* supplier never answers.
C19_CallsBounded ==
    cl.pc \in {"await_httpx", "await_requests"}
    => ENABLED (httpx_post_returns \/ fetch_bdfare_flights_falls_back
                    \/ fallback_to_requests_returns)

\* C17. Consecutive pages partition the prefix: for one merged sequence and a
\* size >= 1, the flights of page p and of page p + 1 (p >= 1) share no
\* position and their concatenation is merged[(p-1)*size : (p+1)*size], cut
\* at the end of the sequence.
RangeOf(m, lo, hi) ==
    [i \in 1 .. (Min(hi, Len(m)) - Min(lo, Len(m))) |-> m[Min(lo, Len(m)) + i]]

C17_ConsecutivePages ==
    (pg.pc = "second" /\ pg.page >= 1 /\ pg.size >= 1)
    => /\ pg.first \o pg.second
            = RangeOf(pg.merged, (pg.page - 1) * pg.size,
                      (pg.page + 1) * pg.size)
       /\ pg.first = RangeOf(pg.merged, (pg.page - 1) * pg.size,
                             pg.page * pg.size)
       /\ pg.second = RangeOf(pg.merged, pg.page * pg.size,
                              (pg.page + 1) * pg.size)
       /\ \A i \in 1 .. Len(pg.first), j \in 1 .. Len(pg.second) :
             pg.first[i] # pg.second[j]

\* Page 2 and page 3 of five offers with size 2: two offers, then the last.
C17_Witness ==
    /\ pg.pc = "second"
    /\ pg.page = 2
    /\ pg.size = 2
    /\ Len(pg.merged) = 5
    /\ pg.first = <<pg.merged[3], pg.merged[4]>>
    /\ pg.second = <<pg.merged[5]>>

\* C24. Closed error set of the supplier client: every BDFare client
\* operation ends by returning the parsed response or by raising an
\* HTTPException; no exception of another type leaves the operation.
C24_ClosedErrorSet ==
    (cl.pc = "done" /\ cl.op \in BdfareOps)
    => \/ cl.out.kind = "return"
       \/ cl.out.kind = "raise" /\ cl.out.type = "HTTPException"

\* C21. Failed refresh has no effect on the cache: when authenticate_flyhub
\* receives a non-200 answer, its task fails at once with an HTTPException
\* that carries the answered status, token and expiry of the cache stay as
\* they were, the request sends no Authenticate again and no search; a
\* request that arrives while the credential is absent or expired
\* authenticates.
C21_FailedRefreshNoEffect ==
    [][\A r \in Callers :
          /\ (rq[r].fh = "auth_wait" /\ rq'[r].auth \notin {0, 200})
                => /\ rq'[r].fh = "failed"
                   /\ rq'[r].auth_exc.type = "HTTPException"
                   /\ rq'[r].auth_exc.status = rq'[r].auth
                   /\ cached_token' = cached_token
                   /\ issued' = issued
                   /\ ~rq'[r].sent.done
          /\ (rq[r].fh = "failed" /\ rq[r].auth \notin {0, 200})
                => /\ rq'[r].fh \in {"failed", "none"}
                   /\ ~rq'[r].sent.done
          /\ (/\ rq[r].h = "idle"
              /\ rq'[r].h = "gather"
              /\ (cached_token.token = 0 \/ cached_token.expires_at <= now))
                => rq'[r].fh = "auth_wait" /\ ~rq'[r].sent.done]_vars

\* An expired token is still in the cache after a refresh was answered 503,
\* and another request is authenticating.
C21_Witness ==
    \E r1, r2 \in Callers :
        /\ rq[r1].fh = "failed"
        /\ rq[r1].auth = 503
        /\ rq[r1].auth_exc.status = 503
        /\ ~rq[r1].sent.done
        /\ cached_token.token = 1
        /\ cached_token.expires_at <= now
        /\ rq[r2].fh = "auth_wait"

\* C22. Credential pair consistency: the cache starts with no token and
\* expiry 0; every step that changes the cache is one successful refresh that
\* writes both its token and its expiry (the time of the refresh + 3600); a
\* token is absent exactly when the expiry is 0; the expiry never decreases.
C22_CredentialPair ==
    /\ cached_token = [token |-> 0, expires_at |-> 0]
    /\ [](cached_token.token = 0 <=> cached_token.expires_at = 0)
    /\ [][/\ cached_token'.expires_at >= cached_token.expires_at
          /\ cached_token' # cached_token
                => /\ issued' = issued + 1
                   /\ cached_token'.token = issued'
                   /\ cached_token'.expires_at = now + 3600
                   /\ \E r \in Callers :
                         rq[r].fh = "auth_wait" /\ rq'[r].auth = 200]_vars

\* The cache holds the token and the expiry of a second refresh that ended
\* while the token of the first was still valid: two refreshes were in flight.
C22_Witness ==
    /\ issued = 2
    /\ cached_token.token = 2
    /\ now > 0
    /\ now < TokenTTL
    /\ cached_token.expires_at = now + TokenTTL

\* C23. Direct BDFare search route: search_flights runs curl only after a
\* transport-level failure (connection error or timeout) of the httpx
\* attempt; an answer with a status other than 200 is raised with that status
\* and with no second attempt; a request makes at most two outbound attempts;
\* with the base URL or the API key not configured it fails with 500 before
\* any outbound attempt.
C23_SearchFlightsFallback ==
    cl.op = "search_flights"
    => /\ cl.sends <= 2
       /\ cl.sends = 2 => cl.first.k \in {"transport", "silent"}
       /\ (/\ cl.pc = "done"
           /\ cl.first.k \in {"json", "status"}
           /\ cl.first.status # 200)
             => /\ cl.sends = 1
                /\ cl.out = Raised("HTTPException", cl.first.status)
       /\ cl.conf # "ok"
             => /\ cl.sends = 0
                /\ cl.pc = "done"
                /\ cl.out = Raised("HTTPException", 500)

\* The connection of the httpx attempt failed and the answer that curl got
\* was returned.
C23_Witness ==
    /\ cl.op = "search_flights"
    /\ cl.pc = "done"
    /\ cl.sends = 2
    /\ cl.first.k = "transport"
    /\ cl.second.k = "json"
    /\ cl.out.kind = "return"

====
